---- MODULE Spec2Model ----
(***************************************************************************)
(* Model of the batching-and-delivery engine of loki_logger                *)
(* (src/loki_logger.go): the line buffer l.logs, the guard mutex l.mu, the *)
(* flush timer l.timer, the worker goroutine, Write / Flush / prepareLogs  *)
(* and Shutdown.                                                           *)
(*                                                                         *)
(* Every goroutine has a call stack of frames.  One action is one          *)
(* statement (or a run of statements that touch no shared variable beyond  *)
(* the first), so that the interleavings of the unlocked statements of     *)
(* Write with the worker's Flush are those the Go scheduler can produce.   *)
(*                                                                         *)
(* The goroutines of Writers call l.Write as an io.Writer (log.Writer(),   *)
(* or a log.Logger built on it).  Calls made through the standard logger   *)
(* are the behaviours in which the Write calls of the writers do not       *)
(* overlap; the standard logger's own mutex is not modelled.               *)
(* prepareLogs reports a parse failure with log.Println, whose output is   *)
(* the sink itself: that is a nested call of Write on the same goroutine.  *)
(*                                                                         *)
(* A line is a sequence of space-separated tokens; its byte length is      *)
(* abstracted to its number of tokens.  The elements of the backing array  *)
(* of l.logs are not modelled apart from the slice value: the unlocked     *)
(* `l.logs = append(l.logs, s)` is a load of the slice followed by a store *)
(* of the extended slice, the outcomes a racing build can produce.         *)
(*                                                                         *)
(* Specifications:                                                         *)
(*   Spec        two writers, the worker, the timer, the cancellation      *)
(*   SpecSingle  one writer, the worker, the timer, the cancellation and   *)
(*               the outcomes of the delivery tasks                        *)
(*   SpecSeq     one caller writing cfg.BatchSize + 1 lines in sequence    *)
(*   SpecTimed   one writer and the worker of a live session under a clock *)
(*   SpecRetry   one sendLogs goroutine, a peer that answers anything or   *)
(*               goes away, the cancellation                               *)
(*   SpecSend    two overlapping sendLogs goroutines                       *)
(*   SpecBackoff one sendLogs goroutine and a destination that is down     *)
(*   SpecBoot    the call of Init, then the session                        *)
(*   SpecHttp    one sendLogs goroutine of the HTTP client revision        *)
(*   SpecProbe   two sendLogs goroutines, isConnAlive statement by         *)
(*               statement                                                 *)
(*   SpecFeedback the session after the application's last Write, with a   *)
(*               destination that is down: the failed deliveries' log      *)
(*               lines are written to the sink                             *)
(*   SpecFormat  the worker's flush of a buffer of drawn lines, and        *)
(*               prepareLogs of the severity-bucketing revision on the     *)
(*               same buffer                                               *)
(*                                                                         *)
(* The severity-bucketing revision (src/unnamed/part_002) sends with an    *)
(* http.Client and groups the entries of a batch by severity; its          *)
(* prepareLogs and sendLogs are modelled in the variables `data` and       *)
(* `http`.                                                                 *)
(*                                                                         *)
(* A connection is a handle with a state (open, the peer, bytes waiting);  *)
(* l.conn refers to one of them.  What a sendLogs goroutine writes with    *)
(* log.Printf is kept in its history `log`; these are Write calls of a     *)
(* writer in the sense above.  In Spec .. SpecTimed a delivery task is     *)
(* seen from the buffer's side only, as the single step SendLogs.          *)
(***************************************************************************)
EXTENDS Integers, Sequences, FiniteSets, TLC

\* ---------------------------------------------------------------- bounds
\* Application Write calls issued in one behaviour.
MaxWrites == 2
\* Largest configured batch-size threshold (cfg.BatchSize ranges over 1..MaxBatchSize).
MaxBatchSize == 3
\* Flush interval, in clock ticks, of the timed specification.
Interval == 2
\* Horizon of the clock of the timed specification.
MaxTime == 5
\* Largest configured retry count of the delivery specifications.
MaxRetry == 3
\* Largest configured retry count of the backoff specification.
MaxBackoffRetry == 36
\* Connections dialled in one behaviour, the session's first one included.
MaxHandles == 2
\* Lines in the buffer handed to a formatter.
MaxLines == 2
\* Failed deliveries in a row, each of a batch made of the error line of the
\* one before, that the feedback specification follows.
MaxGen == 3

VARIABLES
    cfg,        \* Config: [BatchSize, FlushInterval, RetryCount]
    cancelled,  \* l.ctx is done
    logs,       \* l.logs: the line buffer
    mu,         \* l.mu: "free" or the goroutine holding it
    timer,      \* l.timer: "armed", "fired" (event waiting in timer.C), "idle"
    conn,       \* l.conn: "nil", "alive", "dead" (peer gone), "closed"
    stack,      \* call stack of every goroutine, top frame first
    nextId,     \* identity given to the next line passed to Write
    batches,    \* batches handed to `go l.sendLogs`, in spawn order
    delivery,   \* outcome of the delivery task of each batch: "run", "ok", "failed"
    rets,       \* history: what every finished Write call returned
    echoed,     \* history: how often each line was echoed by fmt.Println
    atCancel,   \* history: the buffer, the mutex and the number of batches at the cancellation
    now,        \* timed specification: the clock
    deadline,   \* timed specification: when the armed timer expires
    since,      \* timed specification: when the buffer last became non-empty
    lconn,      \* delivery: the handle l.conn refers to (0 is nil)
    sock,       \* delivery: every connection dialled so far: [open, peer, pending]
    task,       \* delivery: the state of every sendLogs goroutine
    found,      \* history: the handles a liveness probe reported dead
    writes,     \* history: the handles requests were written on, and their state then
    boot,       \* start-up: the call of Init, its inputs and its result
    data,       \* severity-bucketing revision: prepareLogs and its map `data`
    http        \* severity-bucketing revision: the sendLogs goroutine

tvars == <<now, deadline, since>>

\* The variables of the delivery tasks and of the start-up.
dvars == <<lconn, sock, task, found, writes>>
\* The variables of the severity-bucketing (HTTP client) revision.
rvars == <<data, http>>
svars == <<dvars, boot, rvars>>

vars == <<cfg, cancelled, logs, mu, timer, conn, stack, nextId, batches, delivery,
          rets, echoed, atCancel, now, deadline, since, svars>>

\* ------------------------------------------------------------ goroutines
Writers == {"w1", "w2"}
Worker == "worker"
Goroutines == Writers \cup {Worker}

\* ----------------------------------------------------------------- lines
DateTokens == {"2024/01/15"}
TimeTokens == {"10:30:00"}
\* A line as the standard logger writes it (date, time, message).
GoodText == <<"2024/01/15", "10:30:00", "msg">>
\* A line of three tokens whose first two are no date and time.
BadText == <<"not", "a", "date">>
\* A line of fewer than three tokens.
ShortText == <<"short", "line">>
\* What log.Println(err) writes to the sink: prefixed by the standard logger.
ErrText == <<"2024/01/15", "10:30:00", "parse-error">>
Texts == {GoodText, BadText}

NoLine == [id |-> 0, text |-> <<>>]
ByteLen(text) == Len(text)

\* strings.SplitN(val, " ", 3): at most three parts, the third the remainder.
SplitN3(text) ==
    IF Len(text) <= 3 THEN text
    ELSE <<text[1], text[2], SubSeq(text, 3, Len(text))>>

\* time.ParseInLocation("2006/01/02 15:04:05", parts[0]+" "+parts[1], time.UTC) fails.
ParseFails(text) ==
    /\ Len(SplitN3(text)) >= 3
    /\ ~(text[1] \in DateTokens /\ text[2] \in TimeTokens)

\* The formatter without the case of a date and time that do not parse: the
\* line is cut after its second token whatever the parse says.
FormatEntryCut(line) ==
    IF Len(SplitN3(line.text)) < 3
    THEN [id |-> line.id, ts |-> "now", msg |-> line.text]
    ELSE [id |-> line.id, ts |-> IF ParseFails(line.text) THEN "now" ELSE "parsed",
          msg |-> SubSeq(line.text, 3, Len(line.text))]

\* One entry of logData.Values for one buffered line (the three cases of prepareLogs).
FormatEntry(line) ==
    IF Len(SplitN3(line.text)) < 3 \/ ParseFails(line.text)
    THEN [id |-> line.id, ts |-> "now", msg |-> line.text]
    ELSE [id |-> line.id, ts |-> "parsed", msg |-> SubSeq(line.text, 3, Len(line.text))]

\* ---------------------------------------------------------------- frames
Frame(fn, pc, line, tmp, i) == [fn |-> fn, pc |-> pc, line |-> line, tmp |-> tmp, i |-> i]
Top(g) == Head(stack[g])
At(g, fn, pc) == stack[g] # <<>> /\ Top(g).fn = fn /\ Top(g).pc = pc
Goto(g, pc) == [stack EXCEPT ![g] = <<[Head(@) EXCEPT !.pc = pc]>> \o Tail(@)]
\* The top frame continues as `caller` once the pushed frame `f` returns.
Call(g, caller, f) == [stack EXCEPT ![g] = <<f, caller>> \o Tail(@)]
Return(g) == [stack EXCEPT ![g] = Tail(@)]
TailCall(g, f) == [stack EXCEPT ![g] = <<f>> \o Tail(@)]

\* ----------------------------------------------------------------- timer
\* time.Timer.Stop: an armed timer is stopped; an expired or stopped one is left as is.
TimerStop(t) == IF t = "armed" THEN "idle" ELSE t
\* What Stop returns: true only when the call stopped an armed timer.
StopReturned(t) == t = "armed"
\* A non-blocking or blocking receive from timer.C takes the waiting event.
TimerDrain(t) == IF t = "fired" THEN "idle" ELSE t

\* Reset without the drain of a waiting event: the stale event stays in timer.C.
resetWithoutDrain(t) == IF t = "fired" THEN "fired" ELSE "armed"

\* resetAutoFlushTimer: Stop, drain the event if Stop reported false, Reset.
resetAutoFlushTimer(t) ==
    LET stopped == TimerStop(t)
        drained == IF StopReturned(t) THEN stopped ELSE TimerDrain(stopped)
    IN  IF drained \in {"idle", "armed"} THEN "armed" ELSE drained

\* -------------------------------------------------------- delivery state
\* The goroutines started by `go l.sendLogs(&logData)`.
Tasks == {"t1", "t2"}

\* A connection as net.Dial returns it: open, the peer up, nothing to read, no
\* read deadline (rdl names the task whose probe set the deadline in force).
NewSock == [open |-> TRUE, peer |-> "up", pending |-> FALSE, rdl |-> "none"]

\* The 64-bit value zero, as eight bytes, least significant first.
Zero64 == [k \in 0..7 |-> 0]

\* A sendLogs goroutine that has not been started.
\*   pc     position in sendLogs / checkConn
\*   i      the loop variable of `for i := range l.cfg.RetryCount`
\*   resp   the handle the bufio.Reader `response` reads from (0 is nil)
\*   line   the status line read by response.ReadString
\*   probe  the outcome of the last liveness probe ("none" before it)
\*   redial whether checkConn dialled in this attempt
\*   slept  the duration passed to the last time.Sleep, prev the one before
\*   drain  how the loop reading the rest of the response ended ("no": not run)
\*   out    history: the outcome of every attempt
\*   log    history: what the task wrote with log.Printf / log.Print
NoTask ==
    [pc |-> "idle", i |-> 0, resp |-> 0, line |-> <<>>, probe |-> "none",
     redial |-> FALSE, slept |-> Zero64, prev |-> Zero64, drain |-> "no",
     out |-> <<>>, log |-> <<>>]

\* No delivery task runs; l.conn is the connection dialled by Init.
InitNoTasks ==
    /\ lconn = 1
    /\ sock = <<NewSock>>
    /\ task = [t \in Tasks |-> NoTask]
    /\ found = {}
    /\ writes = {}

\* Init has returned nil: the session exists.
Booted == [called |-> TRUE, urlOk |-> TRUE, dialOk |-> TRUE, err |-> FALSE,
           output |-> "sink"]

\* The severities of the buckets of prepareLogs.
Levels == {"info", "error", "warn", "debug"}

\* prepareLogs of the severity-bucketing revision, not running.
\*   pc      "idle", "iter" (in the loop), "blocked" (log.Println waits for
\*           l.mu), "panic" (index out of range), "spawned" (go l.sendLogs)
\*   snap    the slice `range l.logs` iterates over
\*   i       the index of the next line
\*   groups  the map `data`: per severity its entries (none: no such key)
\*   streams the streams sendLogs builds from the map, one per key
NoData ==
    [pc |-> "idle", snap |-> <<>>, i |-> 1, groups |-> [l \in Levels |-> <<>>],
     streams |-> {}]

\* sendLogs of the HTTP client revision, not started.
\*   pc      position in sendLogs
\*   attempt the loop variable
\*   resp    the status code of `resp` (0 is a nil resp)
\*   closed  resp.Body was closed
\*   out     history: the outcome of every l.client.Do
\*   log     history: what was logged or printed
\*   sleeps  history: the seconds passed to every time.Sleep
NoHttp ==
    [pc |-> "idle", attempt |-> 1, resp |-> 0, closed |-> FALSE, out |-> <<>>,
     log |-> <<>>, sleeps |-> <<>>]

\* Nothing of the severity-bucketing revision runs.
InitNoRevision ==
    /\ data = NoData
    /\ http = NoHttp

\* ------------------------------------------------------------------ init
\* The session as a successful Init leaves it.
InitSession ==
    /\ cfg \in [BatchSize : 1..MaxBatchSize, FlushInterval : {Interval},
                 RetryCount : {MaxRetry}]
    /\ cancelled = FALSE
    /\ logs = <<>>
    /\ mu = "free"
    /\ timer = "armed"
    /\ conn = "alive"
    /\ stack = [g \in Goroutines |->
                  IF g = Worker THEN <<Frame("worker", "select", NoLine, <<>>, 0)>>
                                ELSE <<Frame("app", "idle", NoLine, <<>>, 0)>>]
    /\ nextId = 1
    /\ batches = <<>>
    /\ delivery = <<>>
    /\ rets = {}
    /\ echoed = [id \in {} |-> 0]
    /\ atCancel = [logs |-> <<>>, mu |-> "free", batches |-> 0]
    /\ now = 0
    /\ deadline = now + cfg.FlushInterval
    /\ since = 0

Init ==
    /\ InitSession
    /\ InitNoTasks
    /\ boot = Booted
    /\ InitNoRevision

\* ----------------------------------------------------------------- Write
\* The select on l.ctx.Done() that opens Write.
WriteSeesDoneNever == FALSE
WriteSeesDone == cancelled

\* What a Write call that gets past the cancellation check returns.
WriteResultConn(line) ==
    [id |-> line.id, text |-> line.text, conn |-> conn,
     n |-> IF conn = "alive" THEN ByteLen(line.text) ELSE 0, err |-> conn # "alive"]
WriteResult(line) ==
    [id |-> line.id, text |-> line.text, conn |-> conn, n |-> ByteLen(line.text), err |-> FALSE]

\* return 0, fmt.Errorf("context cancelled")
WriteCancelled(line) ==
    [id |-> line.id, text |-> line.text, conn |-> conn, n |-> 0, err |-> TRUE]

\* The size trigger of Write.
SizeTriggerStrict(n) == n > cfg.BatchSize
SizeTrigger(n) == n >= cfg.BatchSize

\* Goroutine g calls l.Write(line) and continues as frame `caller` when it returns.
\* The cancellation check is the first statement of Write.
EnterWrite(g, line, caller) ==
    /\ nextId' = nextId + 1
    /\ IF WriteSeesDone
       THEN /\ stack' = TailCall(g, caller)
            /\ rets' = rets \cup {WriteCancelled(line)}
       ELSE /\ stack' = Call(g, caller, Frame("Write", "reset", line, <<>>, 0))
            /\ rets' = rets

\* Writers are interchangeable: a new call is started by "w1" when it is idle and
\* by "w2" only while "w1" is inside a call, which leaves out no behaviour up to
\* the naming of the goroutines.
MayStart(g) == g = "w1" \/ ~At("w1", "app", "idle")

\* The application (or a delivery task's log.Printf) calls Write.
AppWrite(g, text) ==
    /\ UNCHANGED svars
    /\ g \in Writers
    /\ At(g, "app", "idle")
    /\ MayStart(g)
    /\ nextId <= MaxWrites
    /\ EnterWrite(g, [id |-> nextId, text |-> text], Top(g))
    /\ UNCHANGED <<cfg, cancelled, logs, mu, timer, conn, batches, delivery, echoed,
                   atCancel, tvars>>

\* l.resetAutoFlushTimer()
WriteReset(g) ==
    /\ UNCHANGED svars
    /\ At(g, "Write", "reset")
    /\ timer' = resetAutoFlushTimer(timer)
    /\ deadline' = now + cfg.FlushInterval
    /\ stack' = Goto(g, "load")
    /\ UNCHANGED <<cfg, cancelled, logs, mu, conn, nextId, batches, delivery, rets,
                   echoed, atCancel, now, since>>

\* append(l.logs, string(p)): the load of l.logs
WriteLoad(g) ==
    /\ UNCHANGED svars
    /\ At(g, "Write", "load")
    /\ stack' = [stack EXCEPT ![g] = <<[Head(@) EXCEPT !.pc = "store", !.tmp = logs]>> \o Tail(@)]
    /\ UNCHANGED <<cfg, cancelled, logs, mu, timer, conn, nextId, batches, delivery,
                   rets, echoed, atCancel, tvars>>

\* l.logs = append(...): the store of the extended slice
WriteStore(g) ==
    /\ UNCHANGED svars
    /\ At(g, "Write", "store")
    /\ logs' = Append(Top(g).tmp, Top(g).line)
    /\ since' = IF logs = <<>> THEN now ELSE since
    /\ stack' = [stack EXCEPT ![g] = <<[Head(@) EXCEPT !.pc = "size", !.tmp = <<>>]>> \o Tail(@)]
    /\ UNCHANGED <<cfg, cancelled, mu, timer, conn, nextId, batches, delivery, rets,
                   echoed, atCancel, now, deadline>>

\* fmt.Println(strings.TrimSpace(string(p))); return len(p), nil
WriteFinish(g, line) ==
    /\ echoed' = IF line.id \in DOMAIN echoed
                 THEN [echoed EXCEPT ![line.id] = @ + 1]
                 ELSE echoed @@ (line.id :> 1)
    /\ rets' = rets \cup {WriteResult(line)}

\* if len(l.logs) >= l.cfg.BatchSize { l.Flush() }, and without a flush the echo and return
WriteSize(g) ==
    /\ UNCHANGED svars
    /\ At(g, "Write", "size")
    /\ IF SizeTrigger(Len(logs))
       THEN /\ stack' = Call(g, [Top(g) EXCEPT !.pc = "echo"],
                             Frame("Flush", "check", NoLine, <<>>, 0))
            /\ UNCHANGED <<rets, echoed>>
       ELSE /\ WriteFinish(g, Top(g).line)
            /\ stack' = Return(g)
    /\ UNCHANGED <<cfg, cancelled, logs, mu, timer, conn, nextId, batches, delivery,
                   atCancel, tvars>>

\* Write after its Flush returned: echo and return.
WriteEcho(g) ==
    /\ UNCHANGED svars
    /\ At(g, "Write", "echo")
    /\ WriteFinish(g, Top(g).line)
    /\ stack' = Return(g)
    /\ UNCHANGED <<cfg, cancelled, logs, mu, timer, conn, nextId, batches, delivery,
                   atCancel, tvars>>

\* ----------------------------------------------------------------- Flush
\* if l == nil || l.conn == nil || len(l.logs) == 0 { return }  (outside the lock)
FlushCheck(g) ==
    /\ UNCHANGED svars
    /\ At(g, "Flush", "check")
    /\ stack' = IF conn = "nil" \/ Len(logs) = 0 THEN Return(g) ELSE Goto(g, "lock")
    /\ UNCHANGED <<cfg, cancelled, logs, mu, timer, conn, nextId, batches, delivery,
                   rets, echoed, atCancel, tvars>>

\* l.mu.Lock(): blocks while the mutex is held, also when held by g itself.
FlushLock(g) ==
    /\ UNCHANGED svars
    /\ At(g, "Flush", "lock")
    /\ mu = "free"
    /\ mu' = g
    /\ stack' = Goto(g, "prepare")
    /\ UNCHANGED <<cfg, cancelled, logs, timer, conn, nextId, batches, delivery, rets,
                   echoed, atCancel, tvars>>

\* l.prepareLogs(): `range l.logs` evaluates the slice once.
PrepareRange(g) ==
    /\ UNCHANGED svars
    /\ At(g, "Flush", "prepare")
    /\ stack' = Call(g, [Top(g) EXCEPT !.pc = "truncate"],
                     Frame("prepareLogs", "iter", NoLine, logs, 1))
    /\ UNCHANGED <<cfg, cancelled, logs, mu, timer, conn, nextId, batches, delivery,
                   rets, echoed, atCancel, tvars>>

\* The index of the first line at or after i whose date/time does not parse
\* (Len + 1 when there is none).
NextUnparsed(snap, i) ==
    LET bad == {k \in i..Len(snap) : ParseFails(snap[k].text)}
    IN  IF bad = {} THEN Len(snap) + 1 ELSE CHOOSE k \in bad : \A m \in bad : k <= m

\* The loop of prepareLogs up to the next log.Println(err), which writes to the
\* sink (the standard logger's output is l), or up to `go l.sendLogs(&logData)`.
PrepareIter(g) ==
    /\ UNCHANGED svars
    /\ At(g, "prepareLogs", "iter")
    /\ LET snap == Top(g).tmp
           j == NextUnparsed(snap, Top(g).i)
       IN  IF j > Len(snap)
           THEN /\ batches' = Append(batches, [k \in 1..Len(snap) |-> FormatEntry(snap[k])])
                /\ delivery' = Append(delivery, "run")
                /\ stack' = Return(g)
                /\ UNCHANGED <<nextId, rets>>
           ELSE /\ EnterWrite(g, [id |-> nextId, text |-> ErrText], [Top(g) EXCEPT !.i = j + 1])
                /\ UNCHANGED <<batches, delivery>>
    /\ UNCHANGED <<cfg, cancelled, logs, mu, timer, conn, echoed, atCancel, tvars>>

\* The truncation when the batch handed to the task shares the buffer's array:
\* the entries of the last batch go with the lines.
FlushTruncateAliased(g) ==
    /\ UNCHANGED svars
    /\ At(g, "Flush", "truncate")
    /\ logs' = <<>>
    /\ mu' = "free"
    /\ stack' = Return(g)
    /\ batches' = IF batches = <<>> THEN batches
                  ELSE [batches EXCEPT ![Len(batches)] = <<>>]
    /\ UNCHANGED <<cfg, cancelled, timer, conn, nextId, delivery, rets, echoed,
                   atCancel, tvars>>

\* l.logs = l.logs[:0] and the deferred l.mu.Unlock()
FlushTruncate(g) ==
    /\ UNCHANGED svars
    /\ At(g, "Flush", "truncate")
    /\ logs' = <<>>
    /\ mu' = "free"
    /\ stack' = Return(g)
    /\ UNCHANGED <<cfg, cancelled, timer, conn, nextId, batches, delivery, rets, echoed,
                   atCancel, tvars>>

\* ---------------------------------------------------------------- worker
\* case <-l.timer.C:
WorkerTimer ==
    /\ UNCHANGED svars
    /\ At(Worker, "worker", "select")
    /\ timer = "fired"
    /\ timer' = TimerDrain(timer)
    /\ stack' = Goto(Worker, "fired")
    /\ UNCHANGED <<cfg, cancelled, logs, mu, conn, nextId, batches, delivery, rets,
                   echoed, atCancel, tvars>>

\* if len(l.logs) > 0 { l.Flush() }
WorkerLen ==
    /\ UNCHANGED svars
    /\ At(Worker, "worker", "fired")
    /\ stack' = IF Len(logs) > 0
                THEN Call(Worker, [Top(Worker) EXCEPT !.pc = "select"],
                          Frame("Flush", "check", NoLine, <<>>, 0))
                ELSE Goto(Worker, "select")
    /\ UNCHANGED <<cfg, cancelled, logs, mu, timer, conn, nextId, batches, delivery,
                   rets, echoed, atCancel, tvars>>

\* case <-l.ctx.Done(): l.Shutdown(); return
WorkerDone ==
    /\ UNCHANGED svars
    /\ At(Worker, "worker", "select")
    /\ cancelled
    /\ stack' = Call(Worker, [Top(Worker) EXCEPT !.pc = "done"],
                     Frame("Shutdown", "stop", NoLine, <<>>, 0))
    /\ UNCHANGED <<cfg, cancelled, logs, mu, timer, conn, nextId, batches, delivery,
                   rets, echoed, atCancel, tvars>>

\* if !l.timer.Stop() { <-l.timer.C }: the Stop
ShutdownStop ==
    /\ UNCHANGED svars
    /\ At(Worker, "Shutdown", "stop")
    /\ timer' = TimerStop(timer)
    /\ stack' = IF StopReturned(timer)
                THEN TailCall(Worker, Frame("Flush", "check", NoLine, <<>>, 0))
                ELSE Goto(Worker, "drain")
    /\ UNCHANGED <<cfg, cancelled, logs, mu, conn, nextId, batches, delivery, rets,
                   echoed, atCancel, tvars>>

\* <-l.timer.C: blocks until an event is in the channel; then l.Flush()
ShutdownDrain ==
    /\ UNCHANGED svars
    /\ At(Worker, "Shutdown", "drain")
    /\ timer = "fired"
    /\ timer' = TimerDrain(timer)
    /\ stack' = TailCall(Worker, Frame("Flush", "check", NoLine, <<>>, 0))
    /\ UNCHANGED <<cfg, cancelled, logs, mu, conn, nextId, batches, delivery, rets,
                   echoed, atCancel, tvars>>

\* ----------------------------------------------------------- environment
\* The runtime sends on timer.C when the armed timer expires.
TimerFire ==
    /\ UNCHANGED svars
    /\ timer = "armed"
    /\ timer' = "fired"
    /\ UNCHANGED <<cfg, cancelled, logs, mu, conn, stack, nextId, batches, delivery, rets,
                   echoed, atCancel, tvars>>

\* The session's context is cancelled.
Cancel ==
    /\ UNCHANGED svars
    /\ ~cancelled
    /\ cancelled' = TRUE
    /\ atCancel' = [logs |-> logs, mu |-> mu, batches |-> Len(batches)]
    /\ UNCHANGED <<cfg, logs, mu, timer, conn, stack, nextId, batches, delivery, rets,
                   echoed, tvars>>

\* The delivery task of batch k ends (sendLogs, seen from the buffer's side): the
\* batch was accepted or not, the connection is left usable or not, and the
\* deferred function closes it when the context is done.
SendLogs(k, outcome, c) ==
    /\ UNCHANGED svars
    /\ k \in 1..Len(delivery)
    /\ delivery[k] = "run"
    /\ delivery' = [delivery EXCEPT ![k] = outcome]
    /\ conn' = IF cancelled THEN "closed" ELSE c
    /\ UNCHANGED <<cfg, cancelled, logs, mu, timer, stack, nextId, batches, rets, echoed,
                   atCancel, tvars>>

\* The statements of Write, Flush and prepareLogs, run by goroutine g.
GoStep(g) ==
    \/ WriteReset(g)
    \/ WriteLoad(g)
    \/ WriteStore(g)
    \/ WriteSize(g)
    \/ WriteEcho(g)
    \/ FlushCheck(g)
    \/ FlushLock(g)
    \/ PrepareRange(g)
    \/ PrepareIter(g)
    \/ FlushTruncate(g)

\* The statements of worker and Shutdown.
WorkerStep ==
    \/ WorkerTimer
    \/ WorkerLen
    \/ WorkerDone
    \/ ShutdownStop
    \/ ShutdownDrain

\* The session: two writer goroutines, the worker, the timer and the cancellation.
Next ==
    \/ \E g \in Writers, text \in Texts : AppWrite(g, text)
    \/ \E g \in Goroutines : GoStep(g)
    \/ WorkerStep
    \/ TimerFire
    \/ Cancel

Spec == Init /\ [][Next]_vars

\* ------------------------------------------------- one writer, deliveries
\* The session with one writer goroutine and the delivery tasks' outcomes.
NextSingle ==
    \/ \E text \in Texts : AppWrite("w1", text)
    \/ \E g \in {"w1", Worker} : GoStep(g)
    \/ WorkerStep
    \/ TimerFire
    \/ Cancel
    \/ \E k \in 1..Len(delivery), o \in {"ok", "failed"}, c \in {"alive", "dead"} : SendLogs(k, o, c)

SpecSingle == Init /\ [][NextSingle]_vars

\* ------------------------------------------------------ sequential writes
\* One caller issues cfg.BatchSize + 1 Write calls one after the other; the
\* timer does not expire and the session is not cancelled.
SeqWrite(text) ==
    /\ UNCHANGED svars
    /\ At("w1", "app", "idle")
    /\ nextId <= cfg.BatchSize + 1
    /\ EnterWrite("w1", [id |-> nextId, text |-> text], Top("w1"))
    /\ UNCHANGED <<cfg, cancelled, logs, mu, timer, conn, batches, delivery, echoed,
                   atCancel, tvars>>

NextSeq ==
    \/ \E text \in Texts \cup {ShortText} : SeqWrite(text)
    \/ GoStep("w1")

SpecSeq == Init /\ [][NextSeq]_vars

\* ------------------------------------------------------------- the clock
\* The armed timer expires when its interval has elapsed.
TimerExpire ==
    /\ UNCHANGED svars
    /\ timer = "armed"
    /\ now >= deadline
    /\ timer' = "fired"
    /\ UNCHANGED <<cfg, cancelled, logs, mu, conn, stack, nextId, batches, delivery, rets,
                   echoed, atCancel, tvars>>

\* A step of the program that needs no new call of the application.
ProgramStep ==
    \/ \E g \in {"w1", Worker} : GoStep(g)
    \/ WorkerTimer
    \/ WorkerLen
    \/ TimerExpire

\* Time passes only while the program has nothing to do: the statements of
\* Write, Flush and the worker take no time compared with the flush interval.
Tick ==
    /\ UNCHANGED svars
    /\ now < MaxTime
    /\ ~ENABLED ProgramStep
    /\ now' = now + 1
    /\ UNCHANGED <<cfg, cancelled, logs, mu, timer, conn, stack, nextId, batches, delivery,
                   rets, echoed, atCancel, deadline, since>>

\* A live session with one writer under a clock.
NextTimed ==
    \/ \E text \in Texts : AppWrite("w1", text)
    \/ \E g \in {"w1", Worker} : GoStep(g)
    \/ WorkerTimer
    \/ WorkerLen
    \/ TimerExpire
    \/ Tick

SpecTimed == Init /\ [][NextTimed]_vars

\* ------------------------------------------------------ 64-bit durations
\* 1 << i as a time.Duration (int64): bit i, and zero once i reaches the width.
Pow2_64(i) == [k \in 0..7 |-> IF i < 64 /\ i \div 8 = k THEN 2 ^ (i % 8) ELSE 0]
\* time.Second: 1 000 000 000 ns = 0x3B9ACA00.
Second64 == [k \in 0..7 |-> CASE k = 1 -> 202 [] k = 2 -> 154 [] k = 3 -> 59 [] OTHER -> 0]

\* The product of two numbers of as many bytes, truncated to that many bytes.
RECURSIVE ColSum(_, _, _, _)
ColSum(a, b, k, p) == IF p > k THEN 0 ELSE a[p] * b[k - p] + ColSum(a, b, k, p + 1)
RECURSIVE MulCarry(_, _, _)
MulCarry(a, b, k) ==
    IF k = 0 THEN 0 ELSE (ColSum(a, b, k - 1, 0) + MulCarry(a, b, k - 1)) \div 256
Mul(a, b) == [k \in DOMAIN a |-> (ColSum(a, b, k, 0) + MulCarry(a, b, k)) % 256]

\* A 64-bit value read as signed is negative when its top bit is set.
Negative64(w) == w[7] >= 128

\* time.Duration(1<<i) * time.Second
SleepFor(i) == Mul(Pow2_64(i), Second64)

\* time.Sleep returns at once for a zero or negative duration.
Slept(d) == IF Negative64(d) THEN Zero64 ELSE d

\* -------------------------------------------------------------- responses
\* A token of a status line: whether strconv.Atoi accepts it, and its value.
Tok(d, v) == [digits |-> d, val |-> v]
\* "HTTP/1.1 <code> <reason>\n"
StatusLine(code) == <<Tok(FALSE, 0), Tok(TRUE, code), Tok(FALSE, 0)>>
\* A line whose second token is no number, and a line without a space.
NoCodeLine == <<Tok(FALSE, 0), Tok(FALSE, 0)>>
NoTokenLine == <<Tok(FALSE, 0)>>
Codes == {199, 200, 299, 300, 503}
Lines == {StatusLine(c) : c \in Codes} \cup {NoCodeLine, NoTokenLine}

\* code < 200 || code >= 300 is false
IsSuccessFrom200(code) == code >= 200
IsSuccess(code) == ~(code < 200 \/ code >= 300)

\* The outcome of one attempt, for the history.
Outcome(kind, code) == [kind |-> kind, code |-> code]

\* ------------------------------------------------------------- checkConn
\* What the probe of isConnAlive meets on handle h: a nil handle, a failing
\* SetReadDeadline (the handle is closed), or the result of reading one byte.
ProbeOutcome(h) ==
    IF h = 0 THEN "nil"
    ELSE IF ~sock[h].open THEN "deadline"
    ELSE IF sock[h].pending THEN "data"
    ELSE IF sock[h].peer = "reset" THEN "reset"
    ELSE IF sock[h].peer = "eof" THEN "eof"
    ELSE "timeout"

\* isConnAlive: true for a timeout, and otherwise `return err == nil`.
isConnAlive(o) == o = "timeout" \/ o = "data"

\* The task's attempt has failed before or without a status code: `continue`.
Continue(t, kind, msg) ==
    [task EXCEPT ![t].pc = "loop", ![t].i = @ + 1,
                 ![t].out = Append(@, Outcome(kind, 0)),
                 ![t].log = Append(@, msg)]

\* for i := range l.cfg.RetryCount { if i > 0 { time.Sleep(...) } ...
SendLoop(t) ==
    /\ task[t].pc = "loop"
    /\ task' = [task EXCEPT ![t] =
                 IF task[t].i >= cfg.RetryCount THEN [@ EXCEPT !.pc = "after"]
                 ELSE [@ EXCEPT !.pc = "probe", !.probe = "none", !.redial = FALSE,
                                !.slept = IF task[t].i > 0 THEN SleepFor(task[t].i) ELSE @,
                                !.prev = IF task[t].i > 0 THEN task[t].slept ELSE @]]
    /\ UNCHANGED <<cfg, cancelled, logs, mu, timer, conn, stack, nextId, batches, delivery,
                   rets, echoed, atCancel, tvars, lconn, sock, found, writes, boot, rvars>>

\* if !l.isConnAlive(): the probe reads one byte of the handle in l.conn; when
\* there is one it is consumed, and more may or may not be waiting.
CheckProbe(t, more) ==
    /\ task[t].pc = "probe"
    /\ LET o == ProbeOutcome(lconn)
       IN  /\ sock' = IF o = "data" THEN [sock EXCEPT ![lconn].pending = more] ELSE sock
           /\ more = TRUE \/ o = "data"
           /\ found' = IF isConnAlive(o) \/ lconn = 0 THEN found ELSE found \cup {lconn}
           /\ task' = [task EXCEPT ![t].probe = o,
                                   ![t].pc = IF isConnAlive(o) THEN "write" ELSE "close",
                                   ![t].log = IF o = "deadline" THEN Append(@, "deadline") ELSE @]
    /\ UNCHANGED <<cfg, cancelled, logs, mu, timer, conn, stack, nextId, batches, delivery,
                   rets, echoed, atCancel, tvars, lconn, writes, boot, rvars>>

\* if l.conn != nil { l.conn.Close() }
CheckClose(t) ==
    /\ task[t].pc = "close"
    /\ sock' = IF lconn = 0 THEN sock ELSE [sock EXCEPT ![lconn].open = FALSE]
    /\ task' = [task EXCEPT ![t].pc = "dial"]
    /\ UNCHANGED <<cfg, cancelled, logs, mu, timer, conn, stack, nextId, batches, delivery,
                   rets, echoed, atCancel, tvars, lconn, found, writes, boot, rvars>>

\* net.Dial / tls.Dial: on success l.conn = conn; on failure checkConn returns
\* the error and sendLogs logs it and goes on with the next attempt.
CheckDial(t, ok) ==
    /\ task[t].pc = "dial"
    /\ IF ok
       THEN /\ Len(sock) < MaxHandles
            /\ sock' = Append(sock, NewSock)
            /\ lconn' = Len(sock) + 1
            /\ task' = [task EXCEPT ![t].pc = "write", ![t].redial = TRUE]
       ELSE /\ task' = Continue(t, "conn", "checkConn")
            /\ UNCHANGED <<sock, lconn>>
    /\ UNCHANGED <<cfg, cancelled, logs, mu, timer, conn, stack, nextId, batches, delivery,
                   rets, echoed, atCancel, tvars, found, writes, boot, rvars>>

\* -------------------------------------------------------------- sendLogs
\* l.conn.Write([]byte(request)) fails on a closed handle and on a reset one.
WriteFails(h) == ~sock[h].open \/ sock[h].peer = "reset"

\* if _, err := l.conn.Write([]byte(request)); err != nil { ...; continue }
SendWrite(t) ==
    /\ task[t].pc = "write"
    /\ writes' = writes \cup {[h |-> lconn, open |-> sock[lconn].open, dead |-> lconn \in found]}
    /\ task' = IF WriteFails(lconn) THEN Continue(t, "write", "send")
               ELSE [task EXCEPT ![t].pc = "status"]
    /\ UNCHANGED <<cfg, cancelled, logs, mu, timer, conn, stack, nextId, batches, delivery,
                   rets, echoed, atCancel, tvars, lconn, sock, found, boot, rvars>>

\* response.ReadString('\n') has a line to return: the handle is open and either
\* bytes are waiting or the peer is up and answers.
Readable(h) == sock[h].open /\ sock[h].peer # "reset" /\ (sock[h].pending \/ sock[h].peer = "up")

\* response = bufio.NewReader(l.conn); strStatus, err := response.ReadString('\n')
\* The line is what the peer sent; the rest of the response may or may not be
\* left waiting on the handle.
SendStatus(t, ln, more) ==
    /\ task[t].pc = "status"
    /\ Readable(lconn)
    /\ sock' = [sock EXCEPT ![lconn].pending = more]
    /\ task' = [task EXCEPT ![t].pc = "parse", ![t].resp = lconn, ![t].line = ln]
    /\ UNCHANGED <<cfg, cancelled, logs, mu, timer, conn, stack, nextId, batches, delivery,
                   rets, echoed, atCancel, tvars, lconn, found, writes, boot, rvars>>

\* ... if err != nil { log.Printf("Error loki receive status: %v", err); continue }
\* `response` keeps the reader.
SendStatusErr(t) ==
    /\ task[t].pc = "status"
    /\ ~Readable(lconn)
    /\ task' = [Continue(t, "read", "status") EXCEPT ![t].resp = lconn]
    /\ UNCHANGED <<cfg, cancelled, logs, mu, timer, conn, stack, nextId, batches, delivery,
                   rets, echoed, atCancel, tvars, lconn, sock, found, writes, boot, rvars>>

\* status := strings.Split(strStatus, " "); strconv.Atoi(status[1]); the three
\* branches on the code; response = nil.  status[1] of a line without a space
\* is an index out of range: the goroutine panics.
SendParse(t) ==
    /\ task[t].pc = "parse"
    /\ LET status == task[t].line
       IN  task' = [task EXCEPT ![t] =
                IF Len(status) < 2 THEN [@ EXCEPT !.pc = "panic"]
                ELSE IF ~status[2].digits
                THEN [@ EXCEPT !.pc = "loop", !.i = @ + 1, !.resp = 0,
                               !.out = Append(@, Outcome("nocode", 0)),
                               !.log = Append(@, "parse")]
                ELSE IF ~IsSuccess(status[2].val)
                THEN [@ EXCEPT !.pc = "loop", !.i = @ + 1, !.resp = 0,
                               !.out = Append(@, Outcome("status", status[2].val)),
                               !.log = Append(@, "code")]
                ELSE [@ EXCEPT !.pc = "defer",
                               !.out = Append(@, Outcome("status", status[2].val))]]
    /\ UNCHANGED <<cfg, cancelled, logs, mu, timer, conn, stack, nextId, batches, delivery,
                   rets, echoed, atCancel, tvars, lconn, sock, found, writes, boot, rvars>>

\* if response == nil { return }
SendAfter(t) ==
    /\ task[t].pc = "after"
    /\ task' = [task EXCEPT ![t].pc = IF task[t].resp = 0 THEN "defer" ELSE "drain"]
    /\ UNCHANGED <<cfg, cancelled, logs, mu, timer, conn, stack, nextId, batches, delivery,
                   rets, echoed, atCancel, tvars, lconn, sock, found, writes, boot, rvars>>

\* for { line, err := response.ReadString('\n'); ... log.Print(line) }: the
\* waiting lines are read and logged, then one more read ends the loop.  With
\* the peer up and nothing waiting that read blocks.
SendDrain(t) ==
    /\ task[t].pc = "drain"
    /\ LET h == task[t].resp
       IN  IF sock[h].open /\ sock[h].pending
           THEN /\ sock' = [sock EXCEPT ![h].pending = FALSE]
                /\ task' = [task EXCEPT ![t].log = Append(@, "body")]
           ELSE /\ sock' = sock
                /\ \/ /\ sock[h].open /\ sock[h].peer = "eof"
                      /\ task' = [task EXCEPT ![t].pc = "defer", ![t].drain = "eof"]
                   \/ /\ ~sock[h].open \/ sock[h].peer = "reset"
                      /\ task' = [task EXCEPT ![t].pc = "defer", ![t].drain = "err",
                                              ![t].log = Append(@, "response")]
    /\ UNCHANGED <<cfg, cancelled, logs, mu, timer, conn, stack, nextId, batches, delivery,
                   rets, echoed, atCancel, tvars, lconn, found, writes, boot, rvars>>

\* The deferred function: when the context is done, l.conn.Close().
SendDefer(t) ==
    /\ task[t].pc = "defer"
    /\ sock' = IF cancelled /\ lconn # 0 THEN [sock EXCEPT ![lconn].open = FALSE] ELSE sock
    /\ task' = [task EXCEPT ![t].pc = "done"]
    /\ UNCHANGED <<cfg, cancelled, logs, mu, timer, conn, stack, nextId, batches, delivery,
                   rets, echoed, atCancel, tvars, lconn, found, writes, boot, rvars>>

\* The peer resets the connection or closes its side.
PeerDrop(h, how) ==
    /\ h \in 1..Len(sock)
    /\ sock[h].peer = "up"
    /\ sock' = [sock EXCEPT ![h].peer = how]
    /\ UNCHANGED <<cfg, cancelled, logs, mu, timer, conn, stack, nextId, batches, delivery,
                   rets, echoed, atCancel, tvars, lconn, task, found, writes, boot, rvars>>

\* The statements of sendLogs and checkConn, run by task t with the peer
\* sending the lines of `lines`.
SendStep(t, lines) ==
    \/ SendLoop(t)
    \/ \E more \in BOOLEAN : CheckProbe(t, more)
    \/ CheckClose(t)
    \/ \E ok \in BOOLEAN : CheckDial(t, ok)
    \/ SendWrite(t)
    \/ \E ln \in lines, more \in BOOLEAN : SendStatus(t, ln, more)
    \/ SendStatusErr(t)
    \/ SendParse(t)
    \/ SendAfter(t)
    \/ SendDrain(t)
    \/ SendDefer(t)

\* ------------------------------------------------ delivery specifications
\* The session after n Write calls with a threshold of 1: each line was handed
\* to a sendLogs goroutine of its own, and none of them has taken a step.
InitDelivery(n, retries) ==
    /\ cfg \in [BatchSize : {1}, FlushInterval : {Interval}, RetryCount : retries]
    /\ cancelled = FALSE
    /\ logs = <<>>
    /\ mu = "free"
    /\ timer = "armed"
    /\ conn = "alive"
    /\ stack = [g \in Goroutines |->
                  IF g = Worker THEN <<Frame("worker", "select", NoLine, <<>>, 0)>>
                                ELSE <<Frame("app", "idle", NoLine, <<>>, 0)>>]
    /\ nextId = n + 1
    /\ batches = [k \in 1..n |-> <<FormatEntry([id |-> k, text |-> GoodText])>>]
    /\ delivery = [k \in 1..n |-> "run"]
    /\ rets = {WriteResult([id |-> k, text |-> GoodText]) : k \in 1..n}
    /\ echoed = [id \in 1..n |-> 1]
    /\ atCancel = [logs |-> <<>>, mu |-> "free", batches |-> 0]
    /\ now = 0
    /\ deadline = now + cfg.FlushInterval
    /\ since = 0
    /\ lconn = 1
    /\ sock = <<NewSock>>
    /\ task = [t \in Tasks |->
                 IF t = "t1" \/ n = 2 THEN [NoTask EXCEPT !.pc = "loop"] ELSE NoTask]
    /\ found = {}
    /\ writes = {}
    /\ boot = Booted
    /\ InitNoRevision

\* One delivery task, a peer that answers anything or goes away, cancellation.
NextRetry ==
    \/ SendStep("t1", Lines)
    \/ \E h \in 1..MaxHandles, how \in {"reset", "eof"} : PeerDrop(h, how)
    \/ Cancel

SpecRetry == InitDelivery(1, 0..MaxRetry) /\ [][NextRetry]_vars

\* Two overlapping delivery tasks and a peer that answers 200 or 503.
NextSend ==
    \/ \E t \in Tasks : SendStep(t, {StatusLine(200), StatusLine(503)})
    \/ \E h \in 1..MaxHandles : PeerDrop(h, "reset")
    \/ Cancel

SpecSend == InitDelivery(2, {1, 2}) /\ [][NextSend]_vars

\* One delivery task and a peer that goes away and cannot be dialled again:
\* every attempt fails and the loop runs through all its delays.
NextBackoff ==
    \/ SendLoop("t1")
    \/ CheckProbe("t1", TRUE)
    \/ CheckClose("t1")
    \/ CheckDial("t1", FALSE)
    \/ SendWrite("t1")
    \/ SendStatusErr("t1")
    \/ SendAfter("t1")
    \/ SendDrain("t1")
    \/ SendDefer("t1")
    \/ PeerDrop(1, "reset")

SpecBackoff == InitDelivery(1, 0..MaxBackoffRetry) /\ [][NextBackoff]_vars

\* ------------------------------------------- isConnAlive, step by step
\* l.conn.SetReadDeadline(time.Now().Add(1 * time.Second)) on the handle l.conn
\* refers to now; a nil l.conn and a failing call (closed handle) return false.
ProbeSet(t) ==
    /\ task[t].pc = "probe"
    /\ IF lconn = 0 \/ ~sock[lconn].open
       THEN /\ task' = [task EXCEPT ![t].probe = ProbeOutcome(lconn), ![t].pc = "close",
                                    ![t].log = IF lconn = 0 THEN @ ELSE Append(@, "deadline")]
            /\ found' = IF lconn = 0 THEN found ELSE found \cup {lconn}
            /\ sock' = sock
       ELSE /\ task' = [task EXCEPT ![t].pc = "pread"]
            /\ sock' = [sock EXCEPT ![lconn].rdl = t]
            /\ found' = found
    /\ UNCHANGED <<cfg, cancelled, logs, mu, timer, conn, stack, nextId, batches, delivery,
                   rets, echoed, atCancel, tvars, lconn, writes, boot, rvars>>

\* What l.conn.Read(buf) returns on handle h: an error on a closed handle, a
\* waiting byte, the peer's reset or end of stream, and the timeout when a
\* read deadline is in force; "wait" when it has nothing to return yet.
ReadOutcome(h) ==
    IF ~sock[h].open THEN "closed"
    ELSE IF sock[h].pending THEN "data"
    ELSE IF sock[h].peer = "reset" THEN "reset"
    ELSE IF sock[h].peer = "eof" THEN "eof"
    ELSE IF sock[h].rdl # "none" THEN "timeout"
    ELSE "wait"

\* _, err := l.conn.Read(buf), on the handle l.conn refers to now.
ProbeRead(t, more) ==
    /\ task[t].pc = "pread"
    /\ LET o == ReadOutcome(lconn)
       IN  /\ o # "wait"
           /\ more = TRUE \/ o = "data"
           /\ sock' = IF o = "data" THEN [sock EXCEPT ![lconn].pending = more] ELSE sock
           /\ task' = [task EXCEPT ![t].probe = o, ![t].pc = "prestore"]
    /\ UNCHANGED <<cfg, cancelled, logs, mu, timer, conn, stack, nextId, batches, delivery,
                   rets, echoed, atCancel, tvars, lconn, found, writes, boot, rvars>>

\* The deferred l.conn.SetReadDeadline(time.Time{}), on the handle l.conn
\* refers to now (an error on a closed handle is logged), and the return.
ProbeRestore(t) ==
    /\ task[t].pc = "prestore"
    /\ sock' = IF sock[lconn].open THEN [sock EXCEPT ![lconn].rdl = "none"] ELSE sock
    /\ found' = IF isConnAlive(task[t].probe) THEN found ELSE found \cup {lconn}
    /\ task' = [task EXCEPT ![t].pc = IF isConnAlive(task[t].probe) THEN "write" ELSE "close",
                            ![t].log = IF sock[lconn].open THEN @ ELSE Append(@, "deadline")]
    /\ UNCHANGED <<cfg, cancelled, logs, mu, timer, conn, stack, nextId, batches, delivery,
                   rets, echoed, atCancel, tvars, lconn, writes, boot, rvars>>

\* response.ReadString('\n') under a read deadline that is in force: when the
\* peer has not answered by then the read fails with a timeout; `continue`.
SendStatusTimeout(t) ==
    /\ task[t].pc = "status"
    /\ sock[lconn].open
    /\ sock[lconn].rdl # "none"
    /\ ~sock[lconn].pending
    /\ task' = [Continue(t, "read", "status") EXCEPT ![t].resp = lconn]
    /\ UNCHANGED <<cfg, cancelled, logs, mu, timer, conn, stack, nextId, batches, delivery,
                   rets, echoed, atCancel, tvars, lconn, sock, found, writes, boot, rvars>>

\* Two overlapping delivery tasks of one attempt each, the liveness probe
\* taken statement by statement, and a peer that answers 200 or resets.
NextProbe ==
    \/ \E t \in Tasks :
          \/ SendLoop(t)
          \/ ProbeSet(t)
          \/ \E more \in BOOLEAN : ProbeRead(t, more)
          \/ ProbeRestore(t)
          \/ CheckClose(t)
          \/ \E ok \in BOOLEAN : CheckDial(t, ok)
          \/ SendWrite(t)
          \/ \E more \in BOOLEAN : SendStatus(t, StatusLine(200), more)
          \/ SendStatusErr(t)
          \/ SendStatusTimeout(t)
          \/ SendParse(t)
          \/ SendAfter(t)
          \/ SendDrain(t)
          \/ SendDefer(t)
    \/ \E h \in 1..MaxHandles : PeerDrop(h, "reset")

SpecProbe == InitDelivery(2, {1}) /\ [][NextProbe]_vars

\* ------------------------------------------- the delivery path's own log
\* The line log.Printf("Error loki ...") writes to the sink when an attempt
\* fails, as the standard logger prefixes it.  Its last token is not in the
\* line the code writes: it counts the failed deliveries the line descends
\* from (1 for the failure of a batch of application lines).
SendErrText(g) == <<"2024/01/15", "10:30:00", "send-error", ToString(g)>>

\* How many failed deliveries the message of an entry descends from.
GenOfMsg(msg) ==
    IF Len(msg) = 2 /\ msg[1] = "send-error"
    THEN CHOOSE g \in 1..MaxGen : ToString(g) = msg[2]
    ELSE 0
\* The same for a batch: the largest over its entries.
GenOf(batch) ==
    IF batch = <<>> THEN 0
    ELSE CHOOSE g \in 0..MaxGen :
            /\ \E k \in 1..Len(batch) : GenOfMsg(batch[k].msg) = g
            /\ \A k \in 1..Len(batch) : GenOfMsg(batch[k].msg) <= g

\* The single attempt of the delivery task of batch k fails (RetryCount is 1,
\* the destination is down) and sendLogs reports it with log.Printf: the
\* standard logger's output is the sink, so the task's goroutine calls Write;
\* the loop ends and, response being nil, the task returns.
SendLogsFail(k) ==
    /\ UNCHANGED svars
    /\ k \in 1..Len(delivery)
    /\ delivery[k] = "run"
    /\ At("w2", "app", "idle")
    /\ GenOf(batches[k]) < MaxGen
    /\ delivery' = [delivery EXCEPT ![k] = "failed"]
    /\ EnterWrite("w2", [id |-> nextId, text |-> SendErrText(GenOf(batches[k]) + 1)], Top("w2"))
    /\ UNCHANGED <<cfg, cancelled, logs, mu, timer, conn, batches, echoed, atCancel, tvars>>

\* A live session whose application has written its last line, with a
\* destination that stays down: every delivery fails and is logged.
\* The chain of failures is followed through the first MaxGen + 1 tasks.
NextFeedback ==
    \/ \E k \in 1..MaxGen + 1 : SendLogsFail(k)
    \/ \E g \in {"w2", Worker} : GoStep(g)
    \/ WorkerTimer
    \/ WorkerLen
    \/ TimerFire

SpecFeedback == InitDelivery(1, {1}) /\ [][NextFeedback]_vars

\* ---------------------------------------------------------------- start-up
\* Before the application calls Init: no LokiLogger, no timer, no worker, the
\* standard logger writes to its default output.  The inputs of Init are
\* whether cfg.URL parses and whether the destination accepts a connection.
PreInit ==
    /\ cfg \in [BatchSize : 1..MaxBatchSize, FlushInterval : {Interval},
                 RetryCount : {MaxRetry}]
    /\ cancelled = FALSE
    /\ logs = <<>>
    /\ mu = "free"
    /\ timer = "idle"
    /\ conn = "nil"
    /\ stack = [g \in Goroutines |->
                  IF g = "w1" THEN <<Frame("app", "boot", NoLine, <<>>, 0)>> ELSE <<>>]
    /\ nextId = 1
    /\ batches = <<>>
    /\ delivery = <<>>
    /\ rets = {}
    /\ echoed = [id \in {} |-> 0]
    /\ atCancel = [logs |-> <<>>, mu |-> "free", batches |-> 0]
    /\ now = 0
    /\ deadline = 0
    /\ since = 0
    /\ lconn = 0
    /\ sock = <<>>
    /\ task = [t \in Tasks |-> NoTask]
    /\ found = {}
    /\ writes = {}
    /\ boot \in [called : {FALSE}, urlOk : BOOLEAN, dialOk : BOOLEAN, err : {FALSE},
                 output : {"stderr"}]
    /\ InitNoRevision

\* Init returns an error: url.Parse failed, or l.checkConn() did.
InitFailsOnUrlOnly(b) == ~b.urlOk
InitFails(b) == ~b.urlOk \/ ~b.dialOk

\* Init, called by the application.  url.Parse; the LokiLogger with its empty
\* buffer and its timer; l.checkConn(), which dials since l.conn is nil;
\* go l.worker(); log.SetOutput(l).  On an error of checkConn the timer exists
\* already, and nothing refers to it.
InitCall ==
    /\ At("w1", "app", "boot")
    /\ ~boot.called
    /\ boot' = [boot EXCEPT !.called = TRUE, !.err = InitFails(boot),
                            !.output = IF InitFails(boot) THEN @ ELSE "sink"]
    /\ timer' = IF boot.urlOk THEN "armed" ELSE timer
    /\ deadline' = IF boot.urlOk THEN now + cfg.FlushInterval ELSE deadline
    /\ IF boot.urlOk /\ boot.dialOk
       THEN /\ sock' = Append(sock, NewSock)
            /\ lconn' = Len(sock) + 1
            /\ conn' = "alive"
       ELSE UNCHANGED <<sock, lconn, conn>>
    /\ stack' = IF InitFails(boot)
                THEN [stack EXCEPT !["w1"] = <<Frame("app", "failed", NoLine, <<>>, 0)>>]
                ELSE [stack EXCEPT !["w1"] = <<Frame("app", "idle", NoLine, <<>>, 0)>>,
                                   ![Worker] = <<Frame("worker", "select", NoLine, <<>>, 0)>>]
    /\ UNCHANGED <<cfg, cancelled, logs, mu, nextId, batches, delivery, rets, echoed,
                   atCancel, now, since, task, found, writes, rvars>>

\* The application calls Init and then, when it has a session, writes lines;
\* the worker and the timer run.
NextBoot ==
    \/ InitCall
    \/ \E text \in Texts : SeqWrite(text)
    \/ \E g \in {"w1", Worker} : GoStep(g)
    \/ WorkerTimer
    \/ WorkerLen
    \/ TimerFire

SpecBoot == PreInit /\ [][NextBoot]_vars

\* ------------------------------------- HTTP client revision: sendLogs
\* The status codes a response of l.client.Do carries in the model.
HttpCodes == {200, 204, 302, 400, 404, 499, 500, 503}

\* if resp.StatusCode < 500 { defer resp.Body.Close(); break }
BreaksBelow400(code) == code < 400
Breaks(code) == code < 500

\* resp.StatusCode >= 200 && resp.StatusCode < 300
HttpSuccess(code) == code >= 200 /\ code < 300

\* for attempt := 1; attempt <= l.cfg.RetryCount; attempt++
HttpLoop ==
    /\ http.pc = "loop"
    /\ http' = [http EXCEPT !.pc = IF http.attempt <= cfg.RetryCount THEN "do" ELSE "after"]
    /\ UNCHANGED <<cfg, cancelled, logs, mu, timer, conn, stack, nextId, batches, delivery,
                   rets, echoed, atCancel, tvars, dvars, boot, data>>

\* One iteration: resp, err = l.client.Do(req).  Without an error and with a
\* status below 500 the loop is left, the body to be closed on return; else
\* the body of a response is closed, the failure is logged and the task
\* sleeps `attempt` seconds.
HttpDo(o) ==
    /\ http.pc = "do"
    /\ http' =
         IF o.kind = "status" /\ Breaks(o.code)
         THEN [http EXCEPT !.pc = "after", !.resp = o.code, !.closed = FALSE,
                           !.out = Append(@, o)]
         ELSE [http EXCEPT !.pc = "loop",
                           !.resp = IF o.kind = "status" THEN o.code ELSE 0,
                           !.closed = o.kind = "status",
                           !.out = Append(@, o),
                           !.log = Append(@, "attempt-failed"),
                           !.sleeps = Append(@, http.attempt),
                           !.attempt = @ + 1]
    /\ UNCHANGED <<cfg, cancelled, logs, mu, timer, conn, stack, nextId, batches, delivery,
                   rets, echoed, atCancel, tvars, dvars, boot, data>>

\* After the loop: resp.StatusCode dereferences resp, which is nil when no
\* attempt was made or the last one ended with an error; a status in
\* [200, 300) prints "Logs sent"; any other is logged as the failure's code.
HttpAfter ==
    /\ http.pc = "after"
    /\ http' =
         IF http.resp = 0 THEN [http EXCEPT !.pc = "panic"]
         ELSE IF HttpSuccess(http.resp)
              THEN [http EXCEPT !.pc = "defer", !.log = Append(@, "sent")]
              ELSE [http EXCEPT !.pc = "body", !.log = Append(@, "code")]
    /\ UNCHANGED <<cfg, cancelled, logs, mu, timer, conn, stack, nextId, batches, delivery,
                   rets, echoed, atCancel, tvars, dvars, boot, data>>

\* io.ReadAll(resp.Body): fails on a body closed in the loop, or as the
\* transport decides; the body read is printed.
HttpBody(ok) ==
    /\ http.pc = "body"
    /\ http' = [http EXCEPT !.pc = "defer",
                            !.log = Append(@, IF ok /\ ~http.closed THEN "body"
                                              ELSE "read-error")]
    /\ UNCHANGED <<cfg, cancelled, logs, mu, timer, conn, stack, nextId, batches, delivery,
                   rets, echoed, atCancel, tvars, dvars, boot, data>>

\* The deferred function: l.client.CloseIdleConnections() when the context is done.
HttpDefer ==
    /\ http.pc = "defer"
    /\ http' = [http EXCEPT !.pc = "done"]
    /\ conn' = IF cancelled THEN "closed" ELSE conn
    /\ UNCHANGED <<cfg, cancelled, logs, mu, timer, stack, nextId, batches, delivery,
                   rets, echoed, atCancel, tvars, dvars, boot, data>>

\* The session of the HTTP client revision after one line was written and
\* flushed: prepareLogs has handed its map to a sendLogs goroutine.
InitHttp ==
    /\ cfg \in [BatchSize : {1}, FlushInterval : {Interval}, RetryCount : 0..MaxRetry]
    /\ cancelled = FALSE
    /\ logs = <<>>
    /\ mu = "free"
    /\ timer = "armed"
    /\ conn = "alive"
    /\ stack = [g \in Goroutines |->
                  IF g = Worker THEN <<Frame("worker", "select", NoLine, <<>>, 0)>>
                                ELSE <<Frame("app", "idle", NoLine, <<>>, 0)>>]
    /\ nextId = 2
    /\ batches = <<>>
    /\ delivery = <<>>
    /\ rets = {WriteResult([id |-> 1, text |-> GoodText])}
    /\ echoed = [id \in {1} |-> 1]
    /\ atCancel = [logs |-> <<>>, mu |-> "free", batches |-> 0]
    /\ now = 0
    /\ deadline = now + cfg.FlushInterval
    /\ since = 0
    /\ InitNoTasks
    /\ boot = Booted
    /\ data = [NoData EXCEPT
                 !.pc = "spawned",
                 !.snap = <<[id |-> 1, text |-> GoodText]>>,
                 !.i = 2,
                 !.groups = [l \in Levels |->
                               IF l = "info" THEN <<[id |-> 1, ts |-> "parsed", msg |-> <<"msg">>]>>
                               ELSE <<>>],
                 !.streams = {[level |-> "info",
                               values |-> <<[id |-> 1, ts |-> "parsed", msg |-> <<"msg">>]>>]}]
    /\ http = [NoHttp EXCEPT !.pc = "loop"]

\* One sendLogs goroutine of the HTTP client revision, a server that answers
\* anything or cannot be reached, and the cancellation.
NextHttp ==
    \/ HttpLoop
    \/ \E o \in {Outcome("err", 0)} \cup {Outcome("status", c) : c \in HttpCodes} : HttpDo(o)
    \/ HttpAfter
    \/ \E ok \in BOOLEAN : HttpBody(ok)
    \/ HttpDefer
    \/ Cancel

SpecHttp == InitHttp /\ [][NextHttp]_vars

\* ------------------------- severity-bucketing revision: prepareLogs
\* The severity markers prepareLogs looks for.
Markers == {"INFO", "ERROR", "WARN", "DEBUG"}
\* The messages after the date and the time: a plain word; a marker alone,
\* before a word and after a word; a word with a marker inside it.
Messages ==
    {<<"msg">>, <<"ERRORS", "msg">>, <<"msg", "ERRORS">>}
       \cup {<<m>> : m \in Markers}
       \cup {<<m, "msg">> : m \in Markers}
       \cup {<<"msg", m>> : m \in Markers}

\* The lines a buffer holds: the empty line, lines of one and two tokens, a
\* date and a time alone, a line without date and time, and a date, a time
\* and a message.
FormatTexts ==
    {<<>>, <<"word">>, ShortText, <<"2024/01/15", "10:30:00">>, BadText}
       \cup {<<"2024/01/15", "10:30:00">> \o m : m \in Messages}

\* strings.SplitN(val, " ", 3) in the indexing of Go: the empty line gives
\* one empty part.
BucketParts(text) == IF text = <<>> THEN <<"">> ELSE SplitN3(text)

\* time.ParseInLocation(layout, parts[0]+" "+parts[1], time.UTC) returns an error.
BucketParseErr(text) ==
    ~(BucketParts(text)[1] \in DateTokens /\ BucketParts(text)[2] \in TimeTokens)

\* parts[1], or parts[2] after a successful parse, is out of range.
IndexPanics(text) ==
    \/ Len(BucketParts(text)) < 2
    \/ ~BucketParseErr(text) /\ Len(BucketParts(text)) < 3

\* A word has the marker inside it.
HasSub(word, m) == word = m \/ (word = "ERRORS" /\ m = "ERROR")

\* strings.Contains(val, m): some word of val has the marker inside it.
Contains(val, m) == \E k \in 1..Len(val) : HasSub(val[k], m)

\* strings.Replace(val, m+" ", "", 1): the first occurrence of the marker
\* that a space follows is cut out.
Replace(val, m) ==
    LET ks == {k \in 1..(Len(val) - 1) : val[k] = m}
    IN  IF ks = {} THEN val
        ELSE LET k == CHOOSE x \in ks : \A y \in ks : x <= y
             IN  SubSeq(val, 1, k - 1) \o SubSeq(val, k + 1, Len(val))

\* The four tests of prepareLogs, one after the other, each on the value the
\* one before left: the severity of the last marker found, and the message.
Bucket(val) ==
    LET v1 == IF Contains(val, "INFO") THEN Replace(val, "INFO") ELSE val
        e  == Contains(v1, "ERROR")
        v2 == IF e THEN Replace(v1, "ERROR") ELSE v1
        w  == Contains(v2, "WARN")
        v3 == IF w THEN Replace(v2, "WARN") ELSE v2
        d  == Contains(v3, "DEBUG")
        v4 == IF d THEN Replace(v3, "DEBUG") ELSE v3
    IN  [level |-> IF d THEN "debug" ELSE IF w THEN "warn" ELSE IF e THEN "error" ELSE "info",
         msg |-> v4]

\* data[level] = append(data[level], ...) with the entry put first.
AddEntryFirst(groups, level, e) == [groups EXCEPT ![level] = <<e>> \o @]
\* data[level] = append(data[level], [2]string{timestamp, val})
AddEntry(groups, level, e) == [groups EXCEPT ![level] = Append(@, e)]

\* One iteration of the loop of prepareLogs.  A line of fewer than two parts,
\* or a date and a time alone, indexes parts out of range.  A date and time
\* that do not parse call log.Println(err), which calls Write: it returns at
\* once when the context is done and waits for l.mu otherwise, which the
\* caller of prepareLogs holds.
BucketIter ==
    /\ data.pc = "iter"
    /\ data.i <= Len(data.snap)
    /\ LET line == data.snap[data.i]
           err  == BucketParseErr(line.text)
           val  == IF err THEN line.text ELSE SubSeq(line.text, 3, Len(line.text))
           b    == Bucket(val)
           e    == [id |-> line.id, ts |-> IF err THEN "now" ELSE "parsed", msg |-> b.msg]
       IN  data' =
             IF IndexPanics(line.text) THEN [data EXCEPT !.pc = "panic"]
             ELSE IF err /\ ~WriteSeesDone THEN [data EXCEPT !.pc = "blocked"]
             ELSE [data EXCEPT !.i = @ + 1, !.groups = AddEntry(@, b.level, e)]
    /\ UNCHANGED <<cfg, cancelled, logs, mu, timer, conn, stack, nextId, batches, delivery,
                   rets, echoed, atCancel, tvars, dvars, boot, http>>

\* go l.sendLogs(data), and the streams sendLogs builds: one for each key of the map.
BucketSpawn ==
    /\ data.pc = "iter"
    /\ data.i > Len(data.snap)
    /\ data' = [data EXCEPT
                  !.pc = "spawned",
                  !.streams = {[level |-> l, values |-> data.groups[l]] :
                                  l \in {x \in Levels : data.groups[x] # <<>>}}]
    /\ http' = [NoHttp EXCEPT !.pc = "loop"]
    /\ UNCHANGED <<cfg, cancelled, logs, mu, timer, conn, stack, nextId, batches, delivery,
                   rets, echoed, atCancel, tvars, dvars, boot>>

\* ------------------------------------------------------ the formatters
\* A live session whose buffer holds one to MaxLines lines, none of them
\* flushed yet, at the moment the flush timer has fired; prepareLogs of the
\* severity-bucketing revision is given the same buffer.
InitFormat ==
    /\ \E n \in 1..MaxLines :
          /\ cfg \in [BatchSize : {n + 1, n + 2}, FlushInterval : {Interval},
                       RetryCount : {MaxRetry}]
          /\ \E texts \in [1..n -> FormatTexts] :
                logs = [k \in 1..n |-> [id |-> k, text |-> texts[k]]]
          /\ nextId = n + 1
          /\ echoed = [id \in 1..n |-> 1]
    /\ cancelled = FALSE
    /\ mu = "free"
    /\ timer = "fired"
    /\ conn = "alive"
    /\ stack = [g \in Goroutines |->
                  IF g = Worker THEN <<Frame("worker", "select", NoLine, <<>>, 0)>>
                                ELSE <<Frame("app", "idle", NoLine, <<>>, 0)>>]
    /\ batches = <<>>
    /\ delivery = <<>>
    /\ rets = {WriteResult(logs[k]) : k \in 1..Len(logs)}
    /\ atCancel = [logs |-> <<>>, mu |-> "free", batches |-> 0]
    /\ now = cfg.FlushInterval
    /\ deadline = cfg.FlushInterval
    /\ since = 0
    /\ InitNoTasks
    /\ boot = Booted
    /\ data = [NoData EXCEPT !.pc = "iter", !.snap = logs]
    /\ http = NoHttp

\* The worker flushes the buffer, log.Println(err) of its prepareLogs writing
\* to the sink (a Write whose own flush would wait for l.mu and never echo);
\* prepareLogs of the severity-bucketing revision formats the same lines.
NextFormat ==
    \/ WorkerTimer
    \/ WorkerLen
    \/ FlushCheck(Worker)
    \/ FlushLock(Worker)
    \/ PrepareRange(Worker)
    \/ PrepareIter(Worker)
    \/ FlushTruncate(Worker)
    \/ WriteReset(Worker)
    \/ WriteLoad(Worker)
    \/ WriteStore(Worker)
    \/ WriteSize(Worker)
    \/ BucketIter
    \/ BucketSpawn

SpecFormat == InitFormat /\ [][NextFormat]_vars

\* ---------------------------------------------------------------- claims
\* The identities of the lines of a buffer or of the entries of a batch, in order.
Ids(seq) == [k \in 1..Len(seq) |-> seq[k].id]
\* The lines whose Write returned success.
Accepted == {r.id : r \in {x \in rets : ~x.err}}
\* In how many places of the batches handed to delivery, and of the buffer, a line is.
BatchCount(id) ==
    Cardinality({p \in (1..Len(batches)) \X (1..MaxWrites * 2 + 2) :
                    p[2] <= Len(batches[p[1]]) /\ batches[p[1]][p[2]].id = id})
LogsCount(id) == Cardinality({k \in 1..Len(logs) : logs[k].id = id})
WorkerReturned == At(Worker, "worker", "done")
Idle(g) == At(g, "app", "idle")

\* C1 (as claimed): whenever no flush is in progress, every line whose Write
\* returned success is in exactly one place: one batch handed to delivery, or
\* the buffer; none was truncated away unbatched and none is in two batches.
C1_EveryLineInOneBatch ==
    mu = "free" => \A id \in Accepted : BatchCount(id) + LogsCount(id) = 1

\* C2 (as claimed): after the N sequential Writes of a session with threshold N
\* one batch holds the N lines and the buffer is empty, and after the (N+1)-th
\* the buffer holds only that line.
C2_Original ==
    Idle("w1") =>
        /\ Cardinality(rets) = cfg.BatchSize =>
              /\ Len(batches) = 1
              /\ Ids(batches[1]) = [k \in 1..cfg.BatchSize |-> k]
              /\ logs = <<>>
        /\ Cardinality(rets) = cfg.BatchSize + 1 => Ids(logs) = <<cfg.BatchSize + 1>>

\* C2 (amended): after the N sequential Writes one batch holds the N lines, in
\* order, and the buffer is empty; the (N+1)-th Write leaves the buffer holding
\* only its line when N >= 2, and when N = 1 it is flushed at once as a second
\* batch of one line, leaving the buffer empty.
C2_BatchSizeTrigger ==
    Idle("w1") =>
        /\ Cardinality(rets) < cfg.BatchSize =>
              /\ batches = <<>>
              /\ Ids(logs) = [k \in 1..Cardinality(rets) |-> k]
        /\ Cardinality(rets) = cfg.BatchSize =>
              /\ Len(batches) = 1
              /\ Ids(batches[1]) = [k \in 1..cfg.BatchSize |-> k]
              /\ logs = <<>>
        /\ Cardinality(rets) = cfg.BatchSize + 1 =>
              IF cfg.BatchSize = 1
              THEN /\ Len(batches) = 2
                   /\ Ids(batches[1]) = <<1>>
                   /\ Ids(batches[2]) = <<2>>
                   /\ logs = <<>>
              ELSE /\ Len(batches) = 1
                   /\ Ids(batches[1]) = [k \in 1..cfg.BatchSize |-> k]
                   /\ Ids(logs) = <<cfg.BatchSize + 1>>

\* C2 witness: with a threshold of at least 2, the (N+1)-th Write has returned.
C2_Witness ==
    /\ cfg.BatchSize >= 2
    /\ Idle("w1")
    /\ Cardinality(rets) = cfg.BatchSize + 1

\* C3 (as claimed): when the concurrent Write calls have all returned and no flush
\* has taken place, the buffer holds every accepted line exactly once.
C3_ConcurrentAppends ==
    (/\ \A g \in Writers : Idle(g)
     /\ batches = <<>>
     /\ mu = "free") =>
        /\ Len(logs) = Cardinality(Accepted)
        /\ \A id \in Accepted : LogsCount(id) = 1

\* C4 (as claimed): when the session was cancelled with a non-empty buffer (and no
\* flush under way), then once the worker has returned exactly one batch was handed
\* to delivery after the cancellation, it holds all the lines buffered at the
\* cancellation, and the timer is neither armed nor waiting with an event.
C4_ShutdownFlush ==
    (WorkerReturned /\ atCancel.logs # <<>> /\ atCancel.mu = "free") =>
        /\ Len(batches) = atCancel.batches + 1
        /\ \A k \in 1..Len(atCancel.logs) :
              \E j \in 1..Len(batches[Len(batches)]) :
                  batches[Len(batches)][j].id = atCancel.logs[k].id
        /\ timer = "idle"

\* C5 (as claimed): once the worker has returned the buffer is empty.
C5_NoLineLeftAtShutdown == WorkerReturned => logs = <<>>

\* C6: a Write issued when the context is done returns (0, error) in that very
\* step and changes nothing else: the buffer, the timer, the mutex, the batches
\* and the echo are as before, and no frame of Write or Flush is entered.
C6_WriteAfterCancel ==
    [][(cancelled /\ nextId' # nextId) =>
          /\ \E r \in rets' \ rets : r.id = nextId /\ r.err /\ r.n = 0
          /\ logs' = logs
          /\ timer' = timer
          /\ mu' = mu
          /\ batches' = batches
          /\ echoed' = echoed
          /\ \A g \in Goroutines : Len(stack'[g]) <= Len(stack[g])]_vars

\* C6 witness: a Write issued after the cancellation has returned its error.
C6_Witness == cancelled /\ \E r \in rets : r.err /\ r.n = 0

\* C7 (as claimed): no Write waits forever for the guard mutex; in particular no
\* goroutine waits in Flush for the mutex that it holds itself.
C7_WriteNeverBlocksForever ==
    \A g \in Goroutines : ~(At(g, "Flush", "lock") /\ mu = g)

\* C8: every Write that returned an error did so for a cancelled session, with zero
\* bytes; every other returned (len(line), nil), whatever the connection and the
\* deliveries.
C8_OnlyCancellationFails ==
    \A r \in rets :
        /\ r.err => (cancelled /\ r.n = 0)
        /\ ~r.err => r.n = ByteLen(r.text)

\* C8 witness: a Write returned success while the connection was dead and a
\* delivery had failed.
C8_Witness ==
    /\ \E r \in rets : ~r.err /\ r.conn = "dead" /\ r.n = ByteLen(r.text)
    /\ \E k \in 1..Len(delivery) : delivery[k] = "failed"

\* C9 (as claimed): while the buffer is non-empty and the application is not in a
\* Write call, no more than one flush interval has passed since the timer was last
\* re-armed by a Write.
C9_FlushWithinIntervalOfLastWrite ==
    (logs # <<>> /\ Idle("w1")) => now <= deadline

\* C10 (as claimed): the buffer is never non-empty for longer than one flush
\* interval.
C10_FlushEveryInterval ==
    logs # <<>> => now <= since + cfg.FlushInterval

\* The positions of sendLogs between the liveness probe and the end of the
\* read of the status line: checkConn, the request write, the response read.
ConnSection == {"close", "dial", "write", "status"}

\* C11 (as claimed): at no time are two delivery tasks between their connection
\* check and the end of their response read: the accesses of overlapping tasks
\* to the shared handle are serialized.
C11_ConnAccessSerialized ==
    Cardinality({t \in Tasks : task[t].pc \in ConnSection}) <= 1

\* The attempt outcomes the retry rule names, and success.
Retryable(o) == o.kind \in {"conn", "write", "read"} \/ (o.kind = "status" /\ o.code >= 500)
Success(o) == o.kind = "status" /\ o.code >= 200 /\ o.code < 300
Finished(t) == task[t].pc \in {"after", "drain", "defer", "done"}

\* C12: when the first k attempts of a batch failed in a retryable way and
\* attempt k+1 (at most RetryCount) received a 2xx status, that attempt is the
\* last one and the task returns; and a task whose attempts all failed in a
\* retryable way gives up only after RetryCount attempts.
C12_SuccessEndsRetries ==
    \A t \in Tasks :
        LET out == task[t].out
        IN  /\ \A k \in 1..Len(out) :
                  ((\A j \in 1..(k - 1) : Retryable(out[j])) /\ Success(out[k])) =>
                      /\ Len(out) = k
                      /\ k <= cfg.RetryCount
                      /\ task[t].pc \in {"defer", "done"}
                      /\ task[t].drain = "no"
            /\ (Finished(t) /\ \A j \in 1..Len(out) : Retryable(out[j])) =>
                  Len(out) = cfg.RetryCount

\* C12 witness: two retryable failures, then success at the third attempt.
C12_Witness ==
    /\ task["t1"].pc = "done"
    /\ Len(task["t1"].out) = 3
    /\ task["t1"].out[1] = Outcome("status", 503)
    /\ Retryable(task["t1"].out[2])
    /\ Success(task["t1"].out[3])

\* 2^i seconds in nanoseconds, in 128 bits, and a 64-bit value in 128 bits.
Pow2_128(i) == [k \in 0..15 |-> IF i \div 8 = k THEN 2 ^ (i % 8) ELSE 0]
Widen(w) == [k \in 0..15 |-> IF k \in DOMAIN w THEN w[k] ELSE 0]
ExactSeconds(i) == Mul(Pow2_128(i), Widen(Second64))
\* a < b for non-negative 64-bit values.
RECURSIVE LessFrom(_, _, _)
LessFrom(a, b, k) ==
    IF k < 0 THEN FALSE
    ELSE IF a[k] # b[k] THEN a[k] < b[k]
    ELSE LessFrom(a, b, k - 1)
Less(a, b) == LessFrom(a, b, 7)
InAttempt(t) == task[t].pc \in {"probe", "close", "dial", "write", "status", "parse"}

\* C13 (as claimed): a task makes at most RetryCount attempts; the first attempt
\* is not delayed, attempt i >= 1 is delayed by 2^i seconds, and every delay is
\* strictly longer than the one before.
C13_BackoffDelays ==
    \A t \in Tasks :
        /\ Len(task[t].out) <= cfg.RetryCount
        /\ task[t].i <= cfg.RetryCount
        /\ InAttempt(t) =>
              /\ task[t].i = 0 => task[t].slept = Zero64
              /\ task[t].i >= 1 => Widen(Slept(task[t].slept)) = ExactSeconds(task[t].i)
              /\ task[t].i >= 2 => Less(Slept(task[t].prev), Slept(task[t].slept))

\* C14 (as claimed): when all RetryCount attempts ended without success and the
\* last one received a non-2xx status, the task has logged the status code and
\* has then read the rest of the response to its end.
C14_BodyLoggedOnExhaustion ==
    \A t \in Tasks :
        LET out == task[t].out
        IN  (/\ task[t].pc = "done"
             /\ Len(out) >= 1
             /\ Len(out) = cfg.RetryCount
             /\ out[Len(out)].kind = "status"
             /\ ~Success(out[Len(out)])) =>
                /\ \E k \in 1..Len(task[t].log) : task[t].log[k] = "code"
                /\ task[t].drain # "no"

\* C15 (as claimed): no delivery task panics, whatever the peer sends.
C15_DeliveryNeverPanics ==
    \A t \in Tasks : task[t].pc # "panic"

C17_NoWriteOnStaleHandle ==
    \A w \in writes : w.open /\ ~w.dead

\* C18 (as claimed): once the session is cancelled, the worker has returned and
\* no delivery task is running, the connection is closed.
C18_ConnClosedAfterCancel ==
    (cancelled /\ WorkerReturned /\ \A k \in 1..Len(delivery) : delivery[k] # "run") =>
        conn = "closed"

EchoCount(id) == IF id \in DOMAIN echoed THEN echoed[id] ELSE 0
\* Goroutine g waits in Flush for the mutex it holds: none of its calls returns.
SelfBlocked(g) == At(g, "Flush", "lock") /\ mu = g

\* C19 (as claimed): no line is echoed twice, every Write that returned success
\* has echoed its line once, and no Write of a live session is left for ever
\* without having echoed its line.
C19_EchoOncePerWrite ==
    /\ \A id \in DOMAIN echoed : echoed[id] = 1
    /\ \A r \in rets : ~r.err => EchoCount(r.id) = 1
    /\ \A g \in Goroutines :
          SelfBlocked(g) =>
              \A k \in 1..Len(stack[g]) :
                  stack[g][k].fn = "Write" => EchoCount(stack[g][k].line.id) = 1

\* C20: the call of Init returns an error exactly when the URL does not parse or
\* the destination cannot be connected; then no worker is started and the sink
\* is not the standard logger's output; otherwise the call leaves the timer armed
\* for the configured interval, the worker at its select and l.conn an open
\* connection.
C20_InitAllOrNothing ==
    [][(~boot.called /\ boot'.called) =>
          /\ boot'.err <=> (~boot.urlOk \/ ~boot.dialOk)
          /\ boot'.err =>
                /\ stack'[Worker] = <<>>
                /\ boot'.output = "stderr"
                /\ ~At("w1", "app", "idle")'
          /\ ~boot'.err =>
                /\ timer' = "armed"
                /\ deadline' = now' + cfg'.FlushInterval
                /\ At(Worker, "worker", "select")'
                /\ boot'.output = "sink"
                /\ lconn' # 0
                /\ sock'[lconn'].open
                /\ logs' = <<>>]_vars

\* C20 witness: Init has failed on the connection, the URL being well-formed.
C20_Witness ==
    /\ boot.called /\ boot.err /\ boot.urlOk /\ ~boot.dialOk
    /\ stack[Worker] = <<>>

\* C21 (as claimed): Shutdown never waits at its drain step for an event that
\* cannot come: the worker is never at the receive from timer.C with the timer
\* neither armed nor fired while no Write is under way that could re-arm it.
C21_ShutdownTerminates ==
    ~(At(Worker, "Shutdown", "drain") /\ timer = "idle" /\ Idle("w1"))

\* C22 (as claimed): on a live session the worker never waits at its select with
\* the timer neither armed nor fired: after handling a firing it has re-armed it.
C22_WorkerRearmsTimer ==
    (~cancelled /\ At(Worker, "worker", "select")) => timer \in {"armed", "fired"}

\* C23 (as claimed): the timer reset of a Write is never blocked, and whatever
\* the timer's state was before it, the step leaves the timer armed, with no
\* event waiting in timer.C, to fire one flush interval after the present time;
\* an event waits in timer.C only when a full flush interval has passed since
\* the last Write re-armed the timer.
C23_WriteRearmsTimer ==
    [][/\ \A g \in {"w1", Worker} :
            At(g, "Write", "reset") =>
               /\ ENABLED WriteReset(g)
               /\ stack'[g] # stack[g] =>
                     /\ timer' = "armed"
                     /\ deadline' = now + cfg.FlushInterval
                     /\ now' = now
       /\ timer' = "fired" => now' >= deadline']_vars

\* A Write re-armed the timer after an earlier firing was handled by the worker.
C23_Witness ==
    /\ At("w1", "Write", "load")
    /\ timer = "armed"
    /\ now >= cfg.FlushInterval
    /\ deadline = now + cfg.FlushInterval
    /\ batches # <<>>

\* C24 (as claimed): in the HTTP client revision a response with a status in
\* [400, 500) is the last attempt of its batch, and the task then reports the
\* failure (the status code is logged) and never reports "Logs sent".
C24_ClientErrorAborts ==
    \A k \in 1..Len(http.out) :
       (http.out[k].kind = "status" /\ http.out[k].code >= 400 /\ http.out[k].code < 500) =>
          /\ k = Len(http.out)
          /\ http.pc \in {"after", "body", "defer", "done"}
          /\ \A j \in 1..Len(http.log) : http.log[j] # "sent"
          /\ http.pc \in {"body", "defer", "done"} =>
                \E j \in 1..Len(http.log) : http.log[j] = "code"

\* A 4xx answer to the second of three attempts ended the task as a failure.
C24_Witness ==
    /\ http.pc = "done"
    /\ cfg.RetryCount = 3
    /\ Len(http.out) = 2
    /\ http.out[2] = Outcome("status", 404)

\* The entry the three cases give for a line: fewer than three tokens, the
\* whole line at the current time; a date and a time that parse, the rest of
\* the line at the parsed instant; else the whole line at the current time.
ExpectedEntry(line) ==
    IF Len(line.text) < 3
    THEN [id |-> line.id, ts |-> "now", msg |-> line.text]
    ELSE IF line.text[1] = "2024/01/15" /\ line.text[2] = "10:30:00"
         THEN [id |-> line.id, ts |-> "parsed",
               msg |-> [k \in 1..(Len(line.text) - 2) |-> line.text[k + 2]]]
         ELSE [id |-> line.id, ts |-> "now", msg |-> line.text]

\* C25: every batch the formatter hands over has exactly one entry for each
\* line of the buffer it was given, in the buffer's order, and each entry is
\* the one the three cases give for its line.
C25_ThreeCases ==
    \A b \in 1..Len(batches) :
       /\ Len(batches[b]) = Len(data.snap)
       /\ \A k \in 1..Len(batches[b]) : batches[b][k] = ExpectedEntry(data.snap[k])

\* A batch of a short line and a line without date and time, both kept whole.
C25_Witness ==
    /\ Len(batches) = 1
    /\ Len(batches[1]) = 2
    /\ data.snap[1].text = ShortText
    /\ data.snap[2].text = BadText
    /\ batches[1][2].msg = BadText

\* The entries of the map `data`, whatever their severity.
GroupEntries == {<<l, k>> \in Levels \X (1..MaxLines + 1) : k <= Len(data.groups[l])}
\* The message of a line as prepareLogs sees it: the line after its date and
\* time when they parsed, the whole line otherwise.
MessageOf(e) ==
    LET text == data.snap[e.id].text
    IN  IF e.ts = "parsed" THEN [k \in 1..(Len(text) - 2) |-> text[k + 2]] ELSE text

\* C26 (as claimed): prepareLogs of the severity-bucketing revision never stops
\* on a line, neither with a panic nor waiting; when it has handed over its
\* map, the map has exactly one entry for every line of the buffer, and the
\* entry of a line of fewer than three tokens carries the whole line.
C26_FormatterTotal ==
    /\ data.pc \notin {"panic", "blocked"}
    /\ data.pc = "spawned" =>
          /\ Cardinality(GroupEntries) = Len(data.snap)
          /\ \A p \in GroupEntries :
                LET e == data.groups[p[1]][p[2]]
                IN  Len(data.snap[e.id].text) < 3 => e.msg = data.snap[e.id].text

\* The severity a marker names.
LevelOf(m) ==
    CASE m = "INFO" -> "info" [] m = "ERROR" -> "error" [] m = "WARN" -> "warn"
      [] m = "DEBUG" -> "debug"
\* A sequence without its k-th element.
Without(seq, k) == [j \in 1..(Len(seq) - 1) |-> IF j < k THEN seq[j] ELSE seq[j + 1]]

\* C27 (as claimed): an entry whose message has exactly one marker among its
\* tokens is in that marker's bucket, its message without the marker token;
\* an entry whose message has no marker among its tokens is in the info
\* bucket, its message unchanged; no line has entries in two buckets.
C27_SeverityBuckets ==
    /\ \A p \in GroupEntries :
          LET e == data.groups[p[1]][p[2]]
              val == MessageOf(e)
              at == {k \in 1..Len(val) : val[k] \in Markers}
          IN  /\ at = {} => (p[1] = "info" /\ e.msg = val)
              /\ Cardinality(at) = 1 =>
                    LET k == CHOOSE x \in at : TRUE
                    IN  p[1] = LevelOf(val[k]) /\ e.msg = Without(val, k)
    /\ \A p, q \in GroupEntries :
          data.groups[p[1]][p[2]].id = data.groups[q[1]][q[2]].id => p = q

\* The entries of the streams sendLogs builds.
StreamEntries ==
    {<<s, k>> \in data.streams \X (1..MaxLines + 1) : k <= Len(s.values)}

\* C28: every batch has one entry for each line of the buffer it was formatted
\* from, in the buffer's order; in the severity-bucketing revision the entries
\* of a group are in the buffer's order, no two streams have the same
\* severity, and the streams together have one entry for each line.
C28_BatchKeepsOrder ==
    /\ \A b \in 1..Len(batches) : Ids(batches[b]) = Ids(data.snap)
    /\ \A l \in Levels : \A j, k \in 1..Len(data.groups[l]) :
          j < k => data.groups[l][j].id < data.groups[l][k].id
    /\ data.pc = "spawned" =>
          /\ \A s, t \in data.streams : s.level = t.level => s = t
          /\ Cardinality(StreamEntries) = Len(data.snap)
          /\ \A n \in 1..Len(data.snap) :
                \E p \in StreamEntries : p[1].values[p[2]].id = data.snap[n].id
          /\ \A s \in data.streams : \A j, k \in 1..Len(s.values) :
                j < k => s.values[j].id < s.values[k].id

\* Two lines of the same severity were formatted by both revisions: one
\* batch of two entries, and a stream of two.
C28_Witness ==
    /\ Len(batches) = 1
    /\ Len(batches[1]) = 2
    /\ data.pc = "spawned"
    /\ \E s \in data.streams : Len(s.values) = 2

\* C29: the entries of a batch handed to a delivery task never change: no step
\* of a Write, of a flush, of the worker or of a task adds to, removes from or
\* alters a batch handed over earlier.
C29_BatchFixedAfterHandOff ==
    [][\A k \in 1..Len(batches) :
          /\ k <= Len(batches')
          /\ batches'[k] = batches[k]]_vars

\* While the task of the first batch runs, a later line is in the buffer.
C29_Witness ==
    /\ Len(batches) >= 1
    /\ delivery[1] = "run"
    /\ logs # <<>>
    /\ \A k \in 1..Len(batches[1]) : LogsCount(batches[1][k].id) = 0

\* C30 (as claimed): whenever no flush is in progress, no line of a batch whose
\* delivery failed is in the buffer or in another batch: it was handed to
\* delivery once.
C30_FailedBatchNotRequeued ==
    \A b \in 1..Len(batches) :
       (mu = "free" /\ delivery[b] = "failed") =>
          \A k \in 1..Len(batches[b]) :
             /\ LogsCount(batches[b][k].id) = 0
             /\ BatchCount(batches[b][k].id) = 1

C32_NoEmptyBatch == \A b \in 1..Len(batches) : batches[b] # <<>>

\* C33 (as claimed): after the application's last Write the failed deliveries'
\* own log lines do not go on producing batches: no delivery task is spawned
\* for a batch that descends from MaxGen failed deliveries in a row.
C33_DeliveryLogQuiesces ==
    \A b \in 1..Len(batches) : GenOf(batches[b]) < MaxGen

====
